---- MODULE Spec2Model ----
(***************************************************************************)
(* A model of FFcuesplitter: the CD-DA timecode conversion, the CUE sheet  *)
(* parser of cue_parser.py (CueParser / CueData) and the sheet reader and  *)
(* track resolution of cuesplitter.py (FFCueSplitter.cuefile_parser and    *)
(* make_end_positions_and_durations), the two builders of FFmpeg commands  *)
(* (FFCueSplitter.command_building and FFMpeg.commandargs), sanitize of    *)
(* utils.py, the opening and decoding of the sheet file, the file system   *)
(* operations of user_service.py (check_for_overwriting and                *)
(* work_on_temporary_directory) and the loop of main.                      *)
(*                                                                         *)
(* Text is modelled as TLA+ strings, on which Len, SubSeq and \o act as on *)
(* sequences of characters, so that the Python string methods the code     *)
(* uses (split, strip, startswith, partition, int) are computed here the   *)
(* way Python computes them.                                               *)
(*                                                                         *)
(* Seconds are kept exactly, in 75ths of a second: a duration of x seconds  *)
(* is the integer 75 * x (see Seconds below). Every position the sheet     *)
(* gives is a whole number of CD frames of 44100 // 75 = 588 samples, so   *)
(* the float division "/ 44100" of the code loses nothing in this unit.    *)
(***************************************************************************)
EXTENDS Integers, Sequences, FiniteSets, TLC

VARIABLES
    tc,        \* the timecode text handed to pos_to_frames
    tcf,       \* the fields the timecode text was written from, if it was
    fpc,       \* which conversion has run: "start", "parser", "splitter"
    fres,      \* the conversion's outcome
    general,   \* cuefile_parser: the sheet-wide tags read so far (a dict)
    tracks,    \* cuefile_parser: the list of track dicts
    kwargs,    \* FFCueSplitter.kwargs: 'dirname', then 'FILE' and 'tracks'
    sources,   \* the source paths under whose FILE line the sheet has declared a track
    format,    \* kwargs['format'], the output format asked for
    bres,      \* the outcome of command_building
    spc,       \* "idle", "reading" (in the loop over the lines) or "done"
    sres,      \* the outcome of open_cuefile
    exists,    \* the source paths that exist on disk
    probed,    \* the total duration ffprobe reports for an existing source
    cue,       \* CueParser.run: the CueData being built
    pline,     \* CueParser.run: the line of the sheet the loop is at
    nread,     \* CueParser.run: the number of lines read
    ppc,       \* "idle", "running" (in the loop over the lines) or "done"
    pres,      \* the outcome of CueParser.run
    audiotracks, \* FFMpeg.audiotracks: the resolved tracks commandargs goes through
    outformat, \* FFMpeg.kwargs['format']
    rres,      \* the outcome of FFMpeg.commandargs
    string,    \* the string handed to sanitize
    system,    \* platform.system()
    once,      \* sanitize(string), once computed
    twice,     \* sanitize(sanitize(string)), once computed
    filename,  \* the sheet's path: whether it is a regular file, and its suffix
    bdata,     \* the sheet's bytes, as the set of encodings under which they decode
    encoding,  \* the supplied encoding (from_file) or the detected one (__init__)
    reader,    \* which reader is followed: "from_file" or "open_cuefile"
    parser,    \* from_file: its local variable parser
    olog,      \* what the reader has done to the file system and the bytes so far
    opc,       \* the reader's position
    ores,      \* the reader's outcome
    overwrite, \* kwargs['overwrite']
    outfiles,  \* the tracks whose output file exists in outputdir
    owtracks,  \* check_for_overwriting: self.audiotracks
    tcopy,     \* check_for_overwriting: its local copy of the track list
    cidx,      \* check_for_overwriting: the position of the loop in the copy
    overwr,    \* check_for_overwriting: its local variable overwr
    answered,  \* for each track, the last answer given when asked about its file
    cpc,       \* the position of check_for_overwriting
    cres,      \* the outcome of check_for_overwriting
    wtracks,   \* work_on_temporary_directory: the number of tracks in self.audiotracks
    del_orig_files, \* kwargs['del_orig_files']
    srcfiles,  \* which of the CUE file and the audio source exist as files
    count,     \* work_on_temporary_directory: its counter of recipes
    wlog,      \* the commands run, the move and the removal, in the order they happened
    wpc,       \* the position of work_on_temporary_directory
    wres,      \* the outcome of work_on_temporary_directory
    filelist,  \* main: the number of files in filelist
    dry,       \* main: args.dry
    mlog,      \* main: what became of each file processed so far, in order
    mout,      \* main: the closing messages printed
    mpc        \* main: "start", "loop" or "returned"

fvars == <<tc, tcf, fpc, fres>>

svars == <<general, tracks, kwargs, sources, format, bres, spc, sres, exists, probed>>

pvars == <<cue, pline, nread, ppc, pres>>

rvars == <<audiotracks, outformat, rres>>

uvars == <<string, system, once, twice>>

ovars == <<filename, bdata, encoding, reader, parser, olog, opc, ores>>

cvars == <<overwrite, outfiles, owtracks, tcopy, cidx, overwr, answered, cpc, cres>>

wvars == <<wtracks, del_orig_files, srcfiles, count, wlog, wpc, wres>>

mvars == <<filelist, dry, mlog, mout, mpc>>

\* the state of the file system operations and of main
xvars == <<ovars, cvars, wvars, mvars>>

vars == <<fvars, svars, pvars, rvars, uvars, xvars>>

-----------------------------------------------------------------------------
(* Python string methods.                                                  *)

Char(s, i) == SubSeq(s, i, i)

Whitespace == {" ", "\n", "\t"}

RECURSIVE LStrip(_, _)
\* str.lstrip(chars)
LStrip(s, cs) ==
    IF Len(s) > 0 /\ Char(s, 1) \in cs THEN LStrip(SubSeq(s, 2, Len(s)), cs) ELSE s

RECURSIVE RStrip(_, _)
\* str.rstrip(chars)
RStrip(s, cs) ==
    IF Len(s) > 0 /\ Char(s, Len(s)) \in cs THEN RStrip(SubSeq(s, 1, Len(s) - 1), cs) ELSE s

\* str.strip(chars)
StripChars(s, cs) == RStrip(LStrip(s, cs), cs)

\* str.strip()
Strip(s) == StripChars(s, Whitespace)

\* str.startswith(p)
StartsWith(s, p) == Len(s) >= Len(p) /\ SubSeq(s, 1, Len(p)) = p

\* the index of the first occurrence of the character c in s, 0 if none
FirstIndex(s, c) ==
    IF \E i \in 1..Len(s) : Char(s, i) = c
    THEN CHOOSE i \in 1..Len(s) : Char(s, i) = c /\ \A j \in 1..(i - 1) : Char(s, j) # c
    ELSE 0

\* the index of the last occurrence of the character c in s, 0 if none
LastIndex(s, c) ==
    IF \E i \in 1..Len(s) : Char(s, i) = c
    THEN CHOOSE i \in 1..Len(s) : Char(s, i) = c /\ \A j \in (i + 1)..Len(s) : Char(s, j) # c
    ELSE 0

RECURSIVE Split(_, _)
\* str.split(sep) with a one-character separator: every part, empty ones included
Split(s, sep) ==
    LET i == FirstIndex(s, sep)
    IN IF i = 0 THEN <<s>>
       ELSE <<SubSeq(s, 1, i - 1)>> \o Split(SubSeq(s, i + 1, Len(s)), sep)

DigitChars == <<"0", "1", "2", "3", "4", "5", "6", "7", "8", "9">>

IsDigit(c) == \E i \in 1..Len(DigitChars) : DigitChars[i] = c

DigitVal(c) == (CHOOSE i \in 1..Len(DigitChars) : DigitChars[i] = c) - 1

RECURSIVE DigitsVal(_)
\* the value of a non-empty run of decimal digits
DigitsVal(s) ==
    IF Len(s) = 0 THEN 0
    ELSE 10 * DigitsVal(SubSeq(s, 1, Len(s) - 1)) + DigitVal(Char(s, Len(s)))

AllDigits(s) == Len(s) > 0 /\ \A i \in 1..Len(s) : IsDigit(Char(s, i))

\* the text left of int()'s argument once surrounding whitespace and a sign are taken
IntBody(s) ==
    LET t == Strip(s)
    IN IF Len(t) > 0 /\ Char(t, 1) \in {"+", "-"} THEN SubSeq(t, 2, Len(t)) ELSE t

\* int(s) does not raise ValueError
IntOk(s) == AllDigits(IntBody(s))

\* int(s), for a text int() accepts
IntVal(s) ==
    LET t == Strip(s)
        v == DigitsVal(IntBody(s))
    IN IF Len(t) > 0 /\ Char(t, 1) = "-" THEN 0 - v ELSE v

RECURSIVE Dec(_)
\* str(n) for n >= 0
Dec(n) == IF n < 10 THEN DigitChars[n + 1] ELSE Dec(n \div 10) \o DigitChars[(n % 10) + 1]

\* str(n) and f'{n}' of an int
Str(n) == IF n < 0 THEN "-" \o Dec(0 - n) ELSE Dec(n)

\* a number written with at least two digits, as sheets write timecode fields
Two(n) == IF n < 10 THEN "0" \o Dec(n) ELSE Dec(n)

-----------------------------------------------------------------------------
(* Python dicts are functions whose domain is the set of keys present.     *)

EmptyDict == [k \in {} |-> 0]

\* k in d
Has(d, k) == k \in DOMAIN d

\* d[k] = v
Put(d, k, v) == [x \in (DOMAIN d) \cup {k} |-> IF x = k THEN v ELSE d[x]]

\* lst[i] = v, for a list lst and a position i counted from 1
PutAt(lst, i, v) == [j \in 1..Len(lst) |-> IF j = i THEN v ELSE lst[j]]

-----------------------------------------------------------------------------
(* Outcomes of a call: a returned value or a raised exception.             *)

Returned(v) == [ok |-> TRUE, val |-> v]

Raised(e) == [ok |-> FALSE, exc |-> e]

NotRun == [ok |-> FALSE, exc |-> "not run"]

-----------------------------------------------------------------------------
(* Timecode conversion.                                                    *)

rate == 44100

FramesPerSecond == 75

\* FramesOfFields with the frames field scaled by the rate instead of rate // 75
FramesOfFields_FramesAsSeconds(parts) ==
    IF Len(parts) # 3 \/ \E i \in 1..Len(parts) : ~IntOk(parts[i])
    THEN Raised("ValueError")
    ELSE LET minutes == IntVal(parts[1])
             seconds == (minutes * 60) + IntVal(parts[2])
             frames == IntVal(parts[3])
         IN Returned((seconds * rate) + (frames * rate))

\* the three int() fields of a position text, converted as both functions do
FramesOfFields(parts) ==
    IF Len(parts) # 3 \/ \E i \in 1..Len(parts) : ~IntOk(parts[i])
    THEN Raised("ValueError")
    ELSE LET minutes == IntVal(parts[1])
             seconds == (minutes * 60) + IntVal(parts[2])
             frames == IntVal(parts[3])
         IN Returned((seconds * rate) + (frames * (rate \div FramesPerSecond)))

\* pos_to_frames with the minutes added to the seconds unscaled
pos_to_frames_MinutesUnscaled(pos) ==
    LET parts == Split(pos, ":")
    IN IF Len(parts) # 3 \/ \E i \in 1..Len(parts) : ~IntOk(parts[i])
       THEN Raised("ValueError")
       ELSE Returned(((IntVal(parts[1]) + IntVal(parts[2])) * rate)
                        + (IntVal(parts[3]) * (rate \div FramesPerSecond)))

\* cue_parser.pos_to_frames(pos)
pos_to_frames(pos) == FramesOfFields(Split(pos, ":"))

\* cuesplitter.pos_to_frames(pos): pos is a whole 'INDEX nn MM:SS:FF' line
cuesplitter_pos_to_frames(pos) ==
    LET words == Split(Strip(pos), " ")
    IN IF Len(words) < 3 THEN Raised("IndexError")
       ELSE FramesOfFields(Split(words[3], ":"))

\* the sheet line that carries a timecode
IndexLine(nn, pos) == "    INDEX " \o nn \o " " \o pos \o "\n"

\* the timecode MM:SS:FF as a sheet writes it
Timecode(mm, ss, ff) == Two(mm) \o ":" \o Two(ss) \o ":" \o Two(ff)

MaxMM == 2

MaxSS == 31

MaxFF == 76

MalformedTimecodes ==
    { "", "00:00", "00:00:00:00", "0x:00:00", "00::00", "-1:00:00", "00:-1:00",
      "00:00:-1", "00:00:99", "00 00 00" }

Fields(mm, ss, ff) == [written |-> TRUE, mm |-> mm, ss |-> ss, ff |-> ff]

NoFields == [written |-> FALSE, mm |-> 0, ss |-> 0, ff |-> 0]

\* the state of the sheet reader while no sheet is being read
SplitIdle ==
    /\ general = EmptyDict
    /\ tracks = <<>>
    /\ kwargs = EmptyDict
    /\ sources = {}
    /\ format = ""
    /\ bres = NotRun
    /\ spc = "idle"
    /\ sres = NotRun
    /\ exists = {}
    /\ probed = 0

\* the state of CueParser while no sheet is being parsed
ParseIdle ==
    /\ cue = EmptyDict
    /\ pline = ""
    /\ nread = 0
    /\ ppc = "idle"
    /\ pres = NotRun

\* the state of FFMpeg while commandargs is not called
RecipesIdle ==
    /\ audiotracks = <<>>
    /\ outformat = ""
    /\ rres = NotRun

\* the state while sanitize is not called
SanitizeIdle ==
    /\ string = ""
    /\ system = ""
    /\ once = NotRun
    /\ twice = NotRun

\* the state while no sheet file is being opened
OpenIdle ==
    /\ filename = EmptyDict
    /\ bdata = {}
    /\ encoding = ""
    /\ reader = ""
    /\ parser = ""
    /\ olog = <<>>
    /\ opc = "idle"
    /\ ores = NotRun

\* the state while check_for_overwriting is not called
OverwriteIdle ==
    /\ overwrite = ""
    /\ outfiles = {}
    /\ owtracks = <<>>
    /\ tcopy = <<>>
    /\ cidx = 0
    /\ overwr = ""
    /\ answered = EmptyDict
    /\ cpc = "idle"
    /\ cres = NotRun

\* the state while work_on_temporary_directory is not called
WorkIdle ==
    /\ wtracks = 0
    /\ del_orig_files = FALSE
    /\ srcfiles = {}
    /\ count = 0
    /\ wlog = <<>>
    /\ wpc = "idle"
    /\ wres = NotRun

\* the state while main is not run
MainIdle ==
    /\ filelist = 0
    /\ dry = FALSE
    /\ mlog = <<>>
    /\ mout = <<>>
    /\ mpc = "idle"

\* the state while neither the file system operations nor main are at work
ServiceIdle == OpenIdle /\ OverwriteIdle /\ WorkIdle /\ MainIdle

FramesInit ==
    /\ SplitIdle
    /\ ParseIdle
    /\ RecipesIdle
    /\ SanitizeIdle
    /\ ServiceIdle
    /\ \/ \E mm \in 0..MaxMM, ss \in 0..MaxSS, ff \in 0..MaxFF :
            /\ tc = Timecode(mm, ss, ff)
            /\ tcf = Fields(mm, ss, ff)
       \/ /\ tc \in MalformedTimecodes
          /\ tcf = NoFields
    /\ fpc = "start"
    /\ fres = NotRun

\* a call of the parser's pos_to_frames on the bare timecode
ParserPosToFrames ==
    /\ fpc = "start"
    /\ fres' = pos_to_frames(tc)
    /\ fpc' = "parser"
    /\ UNCHANGED <<xvars, tc, tcf, svars, pvars, rvars, uvars>>

\* a call of the splitter's pos_to_frames on the INDEX 01 line of the timecode
SplitterPosToFrames ==
    /\ fpc = "start"
    /\ fres' = cuesplitter_pos_to_frames(IndexLine("01", tc))
    /\ fpc' = "splitter"
    /\ UNCHANGED <<xvars, tc, tcf, svars, pvars, rvars, uvars>>

FramesNext == ParserPosToFrames \/ SplitterPosToFrames

SpecFrames == FramesInit /\ [][FramesNext]_vars

-----------------------------------------------------------------------------
(* Claims about the timecode conversion, checked under SpecFrames.         *)

\* C5: for every timecode MM:SS:FF with MM >= 0, SS >= 0 and 0 <= FF <= 74,
\* both conversions (the parser's on the bare timecode, the splitter's on its
\* INDEX line) return exactly (MM*60+SS)*44100 + FF*588.
C5_FramesFormula ==
    (fpc # "start" /\ tcf.written /\ tcf.ff <= 74)
        => fres = Returned(((tcf.mm * 60) + tcf.ss) * 44100 + (tcf.ff * 588))

C5_Witness ==
    /\ fpc = "splitter"
    /\ tc = "01:30:74"
    /\ fres = Returned(4012512)

\* C6 as stated: "01:30:00" converts to 4016400 and "00:02:00" to 88200.
C6_Original ==
    /\ (fpc # "start" /\ tc = "01:30:00") => fres = Returned(4016400)
    /\ (fpc # "start" /\ tc = "00:02:00") => fres = Returned(88200)

\* C6 as amended: "01:30:00" converts to 3969000 (90 seconds of 44100 samples)
\* and "00:02:00" to 88200.
C6_Examples ==
    /\ (fpc # "start" /\ tc = "01:30:00") => fres = Returned(3969000)
    /\ (fpc # "start" /\ tc = "00:02:00") => fres = Returned(88200)

C6_Witness ==
    /\ fpc = "parser"
    /\ tc = "01:30:00"
    /\ fres.ok

\* C7: the conversion fails, returning no frame count, for every text that is
\* not three colon-separated fields of digits and for every text with a field
\* out of range (FF above 74; a negative field is not a field of digits).
C7_MalformedFails ==
    (fpc # "start" /\ (~tcf.written \/ tcf.ff > 74)) => ~fres.ok

-----------------------------------------------------------------------------
(* FFCueSplitter: reading the sheet (cuefile_parser, called by             *)
(* open_cuefile) and resolving the tracks                                  *)
(* (make_end_positions_and_durations).                                     *)

\* samples / 44100, in 75ths of a second (every position pos_to_frames returns
\* is a whole number of rate // 75 samples)
Seconds(samples) == samples \div (rate \div FramesPerSecond)

RECURSIVE Words(_)
\* str.split() with no separator: the runs of non-whitespace characters
Words(s) ==
    LET t == LStrip(s, Whitespace)
    IN IF Len(t) = 0 THEN <<>>
       ELSE LET ends == {i \in 1..Len(t) : Char(t, i) \in Whitespace}
                e == IF ends = {} THEN Len(t) + 1
                     ELSE CHOOSE i \in ends : \A j \in ends : i <= j
            IN <<SubSeq(t, 1, e - 1)>> \o Words(SubSeq(t, e, Len(t)))

RECURSIVE SumSeq(_)
\* sum(time)
SumSeq(q) == IF Len(q) = 0 THEN 0 ELSE Head(q) + SumSeq(Tail(q))

\* os.path.join(dirname, name) for a relative name
PathJoin(dir, name) == dir \o "/" \o name

dirname == "/cd"

SourceNames == {"a.wav", "b.wav"}

SourcePaths == {PathJoin(dirname, n) : n \in SourceNames}

\* the state cuefile_parser has after a line, or the exception the line raised
Step(e, g, t, kw) == [exc |-> e, general |-> g, tracks |-> t, kwargs |-> kw]

\* tracks[-1][k] = v
PutLast(t, k, v) == PutAt(t, Len(t), Put(t[Len(t)], k, v))

\* what a line assigns: the key its prefix selects (to "general", "kwargs", a new
\* "track" or the "last" track; "" for a line no prefix matches) and the value
\* its right-hand side gives, or the exception evaluating it raises
Reading(to, k, v) == [to |-> to, key |-> k, val |-> v]

\* line.split('"')[1]
Quoted(line) ==
    LET q == Split(line, "\"")
    IN IF Len(q) < 2 THEN Raised("IndexError") ELSE Returned(q[2])

\* the right-hand sides of the loop of cuefile_parser, evaluated on a line
LineReading(line) ==
    IF StartsWith(line, "REM GENRE ") THEN Reading("general", "GENRE", Quoted(line))
    ELSE IF StartsWith(line, "REM DATE ") THEN
        Reading("general", "DATE",
                IF Len(Words(line)) < 3 THEN Raised("IndexError")
                ELSE Returned(Words(line)[3]))
    ELSE IF StartsWith(line, "REM COMMENT ") THEN Reading("general", "COMMENT", Quoted(line))
    ELSE IF StartsWith(line, "PERFORMER ") THEN Reading("general", "ARTIST", Quoted(line))
    ELSE IF StartsWith(line, "TITLE ") THEN Reading("general", "ALBUM", Quoted(line))
    ELSE IF StartsWith(line, "FILE ") THEN Reading("kwargs", "FILE", Quoted(line))
    ELSE IF StartsWith(line, "  TRACK ") THEN
        LET words == Split(Strip(line), " ")
        IN Reading("track", "TRACK",
                   IF Len(words) < 2 THEN Raised("IndexError")
                   ELSE IF ~IntOk(words[2]) THEN Raised("ValueError")
                   ELSE Returned(IntVal(words[2])))
    ELSE IF StartsWith(line, "    TITLE ") THEN Reading("last", "TITLE", Quoted(line))
    ELSE IF StartsWith(line, "    PERFORMER ") THEN Reading("last", "ARTIST", Quoted(line))
    ELSE IF StartsWith(line, "    INDEX 00 ") THEN
        Reading("last", "pre_gap", cuesplitter_pos_to_frames(line))
    ELSE IF StartsWith(line, "    INDEX 01 ") THEN
        Reading("last", "START", cuesplitter_pos_to_frames(line))
    ELSE Reading("", "", Returned(""))

MaxTracks == 3

FileLine(name) == "FILE \"" \o name \o "\" WAVE\n"

TrackLine(n) == "  TRACK " \o Two(n) \o " AUDIO\n"

StartTimecodes == {"00:00:00", "00:02:00", "00:04:00"}

PreGapTimecodes == {"00:01:74"}

\* the lines a sheet may go on with once it holds n tracks
SheetLines(n) ==
    {FileLine(f) : f \in SourceNames}
        \cup {TrackLine(n + 1)}
        \cup {IndexLine("01", pos) : pos \in StartTimecodes}
        \cup {IndexLine("00", pos) : pos \in PreGapTimecodes}

\* LineReading, tabulated once over the lines of the model's sheets
LineReadings == [line \in UNION {SheetLines(n) : n \in 0..MaxTracks} |-> LineReading(line)]

\* one pass of the loop of cuefile_parser over a line of the sheet
cuefile_parser_line(g, t, kw, line) ==
    LET rd == LineReadings[line]
    IN IF rd.to = "" THEN Step("", g, t, kw)
       ELSE IF ~rd.val.ok THEN Step(rd.val.exc, g, t, kw)
       ELSE IF rd.to = "general" THEN Step("", Put(g, rd.key, rd.val.val), t, kw)
       ELSE IF rd.to = "kwargs" THEN
           Step("", g, t, Put(kw, rd.key, PathJoin(kw.dirname, rd.val.val)))
       ELSE IF rd.to = "track" THEN
           Step("", g, Append(t, Put(g, rd.key, rd.val.val)), kw)
       ELSE IF Len(t) = 0 THEN Step("IndexError", g, t, kw)
       ELSE Step("", g, PutLast(t, rd.key, rd.val.val), kw)

\* FFProbe(...).error_check(): ffprobe cannot read a source that does not exist
probe_error_check(path, ex) == path \notin ex

\* make_end_positions_and_durations with the last duration taken from the last
\* track's own start instead of from the sum of the earlier durations
make_end_positions_and_durations_LastFromStart(t, kw, ex, dur) ==
    IF ~Has(kw, "FILE") THEN Raised("KeyError")
    ELSE IF kw.FILE \notin ex THEN Raised("FFCueSplitterError")
    ELSE LET n == Len(t)
             keyError(i) == \/ ~Has(t[i + 1], "START")
                            \/ ~Has(t[i], "START")
                            \/ Has(t[i], "pre_gap") /\ ~Has(t[i + 1], "pre_gap")
             endOf(i) == IF Has(t[i], "pre_gap") THEN t[i + 1].pre_gap ELSE t[i + 1].START
         IN IF (\E i \in 1..(n - 1) : keyError(i)) \/ ~Has(t[n], "START")
            THEN Raised("KeyError")
            ELSE Returned([i \in 1..n |->
                     IF i < n
                     THEN Put(Put(t[i], "END", endOf(i)),
                              "DURATION", Seconds(t[i + 1].START - t[i].START))
                     ELSE Put(t[i], "DURATION", dur - Seconds(t[n].START))])

\* make_end_positions_and_durations(tracks), with ffprobe's duration dur
make_end_positions_and_durations(t, kw, ex, dur) ==
    IF ~Has(kw, "FILE") THEN Raised("KeyError")
    ELSE IF probe_error_check(kw.FILE, ex) THEN Raised("FFCueSplitterError")
    ELSE LET n == Len(t)
             keyError(i) == \/ ~Has(t[i + 1], "START")
                            \/ ~Has(t[i], "START")
                            \/ Has(t[i], "pre_gap") /\ ~Has(t[i + 1], "pre_gap")
             time == IF n = 1 THEN <<>>
                     ELSE [i \in 1..(n - 1) |-> Seconds(t[i + 1].START - t[i].START)]
             last == dur - SumSeq(time)
             endOf(i) == IF Has(t[i], "pre_gap") THEN t[i + 1].pre_gap ELSE t[i + 1].START
         IN IF \E i \in 1..(n - 1) : keyError(i) THEN Raised("KeyError")
            ELSE Returned([i \in 1..n |->
                     IF i < n THEN Put(Put(t[i], "END", endOf(i)), "DURATION", time[i])
                     ELSE Put(t[i], "DURATION", last)])

\* cuefile_parser once the lines are exhausted
cuefile_parser_end(t, kw, ex, dur) ==
    IF Len(t) = 0 THEN Raised("ParserError")
    ELSE make_end_positions_and_durations(t, kw, ex, dur)

\* the durations ffprobe may report: 1.0 and 6.0 seconds
ProbeDurations == {1 * FramesPerSecond, 6 * FramesPerSecond}

FramesIdle ==
    /\ tc = ""
    /\ tcf = NoFields
    /\ fpc = "idle"
    /\ fres = NotRun

SplitInit ==
    /\ FramesIdle
    /\ ParseIdle
    /\ RecipesIdle
    /\ SanitizeIdle
    /\ ServiceIdle
    /\ general = EmptyDict
    /\ tracks = <<>>
    /\ kwargs = [dirname |-> dirname]
    /\ sources = {}
    /\ format = ""
    /\ bres = NotRun
    /\ spc = "reading"
    /\ sres = NotRun
    /\ exists = {}
    /\ probed = 0

\* cuefile_parser reads the next line of the sheet
ReadLine ==
    /\ spc = "reading"
    /\ \E line \in SheetLines(Len(tracks)) :
        LET r == cuefile_parser_line(general, tracks, kwargs, line)
        IN /\ StartsWith(line, "  TRACK ") => Len(tracks) < MaxTracks
           /\ general' = r.general
           /\ tracks' = r.tracks
           /\ kwargs' = r.kwargs
           /\ sources' = IF StartsWith(line, "  TRACK ") /\ r.exc = "" /\ Has(kwargs, "FILE")
                         THEN sources \cup {kwargs.FILE} ELSE sources
           /\ spc' = IF r.exc = "" THEN "reading" ELSE "done"
           /\ sres' = IF r.exc = "" THEN sres ELSE Raised(r.exc)
    /\ UNCHANGED <<xvars, fvars, pvars, rvars, uvars, exists, probed, format, bres>>

\* the sheet ends: cuefile_parser checks the track list and resolves the tracks
\* against the sources found on disk and the duration ffprobe reports, and
\* open_cuefile stores the result
EndOfInput ==
    /\ spc = "reading"
    /\ \E ex \in SUBSET SourcePaths, dur \in ProbeDurations :
        LET r == cuefile_parser_end(tracks, kwargs, ex, dur)
        IN /\ exists' = ex
           /\ probed' = dur
           /\ sres' = IF r.ok /\ (Len(r.val) = 0 \/ ~Has(kwargs, "FILE"))
                      THEN Raised("ParserError") ELSE r
           /\ tracks' = IF r.ok THEN r.val ELSE tracks
           /\ kwargs' = IF r.ok THEN Put(kwargs, "tracks", r.val) ELSE kwargs
    /\ spc' = "done"
    /\ UNCHANGED <<xvars, fvars, pvars, rvars, uvars, general, sources, format, bres>>

\* frames_to_seconds: the time that str(timedelta(seconds=frames / 44100))
\* writes, in 75ths of a second
frames_to_seconds(frames) == Seconds(frames)

\* d.get(k, default)
Get(d, k, default) == IF Has(d, k) THEN d[k] ELSE default

\* the codec table of command_building: format |-> <<codec, outext>>
datacodecs ==
    [wav |-> <<"pcm_s16le", "wav">>, wv |-> <<"libwavpack", "wv">>,
     flac |-> <<"flac", "flac">>, m4a |-> <<"alac", "m4a">>,
     ogg |-> <<"libvorbis", "ogg">>, mp3 |-> <<"libmp3lame", "mp3">>]

\* the formats a caller may ask for: one of the table, the pass-through mode and
\* one no table knows
OutputFormats == {"flac", "copy", "aac"}

\* one pass of the loop of command_building: the command for the track, kept as
\* the parts the code writes into the command line (the key "to" is there only
\* if the code writes -to)
build_command(kw, fmt, track) ==
    LET metadata == [ARTIST |-> Get(track, "ARTIST", ""),
                     ALBUM |-> Get(track, "ALBUM", ""),
                     TITLE |-> Get(track, "TITLE", ""),
                     TRACK |-> Str(track.TRACK) \o "/" \o Str(Len(kw.tracks)),
                     GENRE |-> Get(track, "GENRE", ""),
                     DATE |-> Get(track, "DATE", ""),
                     COMMENT |-> Get(track, "COMMENT", "")]
        cmd == [i |-> kw.FILE,
                ss |-> frames_to_seconds(track.START),
                metadata |-> metadata,
                codec |-> datacodecs[fmt][1],
                name |-> Str(track.TRACK) \o " - " \o Get(track, "TITLE", "")
                             \o "." \o datacodecs[fmt][2]]
    IN IF Has(track, "END") THEN Put(cmd, "to", frames_to_seconds(track.END)) ELSE cmd

\* command_building with the commands listed last track first
command_building_Reversed(kw, fmt) ==
    IF fmt \notin DOMAIN datacodecs THEN Raised("KeyError")
    ELSE IF \E i \in 1..Len(kw.tracks) : ~Has(kw.tracks[i], "START") THEN Raised("KeyError")
    ELSE Returned([command |-> [i \in 1..Len(kw.tracks) |->
                                   build_command(kw, fmt, kw.tracks[Len(kw.tracks) + 1 - i])],
                   time |-> [i \in 1..Len(kw.tracks) |-> kw.tracks[i].DURATION]])

\* command_building: the commands and the durations, or the exception raised
command_building(kw, fmt) ==
    IF fmt \notin DOMAIN datacodecs THEN Raised("KeyError")
    ELSE IF \E i \in 1..Len(kw.tracks) : ~Has(kw.tracks[i], "START") THEN Raised("KeyError")
    ELSE Returned([command |-> [i \in 1..Len(kw.tracks) |->
                                   build_command(kw, fmt, kw.tracks[i])],
                   time |-> [i \in 1..Len(kw.tracks) |-> kw.tracks[i].DURATION]])

\* command_building is called on the tracks open_cuefile has returned
CommandBuilding ==
    /\ spc = "done"
    /\ sres.ok
    /\ bres = NotRun
    /\ \E fmt \in OutputFormats :
        /\ format' = fmt
        /\ bres' = command_building(kwargs, fmt)
    /\ UNCHANGED <<xvars, fvars, pvars, rvars, uvars, general, tracks, kwargs, sources, spc, sres,
                   exists, probed>>

SplitNext == ReadLine \/ EndOfInput \/ CommandBuilding

SpecSplit == SplitInit /\ [][SplitNext]_vars

-----------------------------------------------------------------------------
(* Claims about track resolution, checked under SpecSplit.                 *)

\* open_cuefile has returned the resolved tracks
Resolved == spc = "done" /\ sres.ok

\* the sum of the DURATION values of the tracks
RECURSIVE SumDurations(_)
SumDurations(t) == IF Len(t) = 0 THEN 0 ELSE Head(t).DURATION + SumDurations(Tail(t))

\* C1: after resolution, every track i but the last has END[i] = START[i+1] and
\* DURATION[i] = (START[i+1] - START[i]) / 44100, also in sheets with INDEX 00
\* lines.
C1_EndIsNextStart ==
    Resolved =>
        \A i \in 1..(Len(sres.val) - 1) :
            /\ sres.val[i].END = sres.val[i + 1].START
            /\ sres.val[i].DURATION = Seconds(sres.val[i + 1].START - sres.val[i].START)

\* C2: the last track has no END; its DURATION is the probed duration minus the
\* sum of the earlier durations when there are several tracks, and the probed
\* duration minus START[0] / 44100 when there is exactly one.
C2_LastTrack ==
    Resolved =>
        LET n == Len(sres.val)
        IN /\ ~Has(sres.val[n], "END")
           /\ n > 1 =>
                sres.val[n].DURATION = probed - SumDurations(SubSeq(sres.val, 1, n - 1))
           /\ (n = 1 /\ Has(sres.val[1], "START")) =>
                sres.val[1].DURATION = probed - Seconds(sres.val[1].START)

\* C3: the DURATION values of the resolved tracks of a sheet sum to the duration
\* probed for its source file.
C3_DurationsSumToProbe == Resolved => SumDurations(sres.val) = probed

C3_Witness ==
    /\ Resolved
    /\ Len(sres.val) = 3
    /\ sres.val[1].START = 88200
    /\ sres.val[3].START = 176400
    /\ sres.val[3].DURATION > 0
    /\ Cardinality(sources) = 1

\* C4: resolution never returns a track whose DURATION is zero or negative.
C4_PositiveDurations ==
    Resolved => \A i \in 1..Len(sres.val) : sres.val[i].DURATION > 0

\* C10: the job fails for want of a source only when no FILE under which the
\* sheet declares tracks names a source that exists; the tracks of an existing
\* source are resolved although another FILE's source is missing.
C10_MissingSourceDropped ==
    (spc = "done" /\ sres = Raised("FFCueSplitterError")) => sources \cap exists = {}

\* the dict d without the keys ks
Without(d, ks) == [k \in (DOMAIN d) \ ks |-> d[k]]

\* the resolved tracks t as the sheet would give them had it no INDEX 00 line
\* and before resolution
AsReadWithoutIndex00(t) ==
    [i \in 1..Len(t) |-> Without(t[i], {"pre_gap", "END", "DURATION"})]

\* C13: an INDEX command with a number other than 01 changes nothing: the
\* resolved tracks (their metadata, START, END and DURATION) are those of the
\* same sheet without its INDEX 00 lines.
C13_OtherIndexIgnored ==
    Resolved =>
        Returned(sres.val) =
            make_end_positions_and_durations(AsReadWithoutIndex00(sres.val),
                                             kwargs, exists, probed)

\* command_building has returned the commands and the durations
Built == spc = "done" /\ bres.ok

\* C14: there is exactly one recipe per resolved track, in the order of the
\* tracks: the i-th command seeks to the i-th track's start and is tagged with
\* its number, and the i-th duration is the i-th track's DURATION.
C14_OneRecipePerTrack ==
    Built =>
        /\ Len(bres.val.command) = Len(kwargs.tracks)
        /\ Len(bres.val.time) = Len(kwargs.tracks)
        /\ \A i \in 1..Len(kwargs.tracks) :
            /\ bres.val.time[i] = kwargs.tracks[i].DURATION
            /\ bres.val.command[i].ss = Seconds(kwargs.tracks[i].START)
            /\ StartsWith(bres.val.command[i].metadata.TRACK,
                          Str(kwargs.tracks[i].TRACK) \o "/")

\* three tracks starting at 0, 2 and 4 seconds have been turned into recipes
C14_Witness ==
    /\ Built
    /\ Len(bres.val.command) = 3
    /\ bres.val.command[2].ss = 2 * FramesPerSecond
    /\ bres.val.command[3].ss = 4 * FramesPerSecond
    /\ bres.val.time[1] = 2 * FramesPerSecond

NineTags ==
    {"ARTIST", "ALBUM", "TITLE", "TRACK", "DISCNUMBER", "GENRE", "DATE", "COMMENT", "DISCID"}

\* C15: every recipe carries all nine tags, and a tag whose field the sheet
\* leaves unset has the empty string as value.
C15_NineTags ==
    Built =>
        \A i \in 1..Len(bres.val.command) :
            /\ DOMAIN bres.val.command[i].metadata = NineTags
            /\ \A tag \in NineTags \ {"TRACK"} :
                ~Has(kwargs.tracks[i], tag)
                    => bres.val.command[i].metadata[tag] = ""

\* C16: the TRACK tag is '<num>/<total>' with total the number of tracks of the
\* track's own FILE group; stated for the sheets that declare every track under
\* a source of its own, where that total is 1.
C16_TrackTagTotalInGroup ==
    (Built /\ Cardinality(sources) = Len(kwargs.tracks)) =>
        \A i \in 1..Len(kwargs.tracks) :
            bres.val.command[i].metadata.TRACK = Str(kwargs.tracks[i].TRACK) \o "/1"

\* C17: every recipe seeks to START / 44100 seconds and has an upper bound,
\* END / 44100 seconds, exactly if its track has an END; the last track of a
\* group has none (stated for the sheets that declare every track under a source
\* of its own, where every track is the last of its group).
C17_SeekAndTrim ==
    Built =>
        /\ \A i \in 1..Len(kwargs.tracks) :
            /\ bres.val.command[i].ss = Seconds(kwargs.tracks[i].START)
            /\ Has(bres.val.command[i], "to") <=> Has(kwargs.tracks[i], "END")
            /\ Has(bres.val.command[i], "to")
                   => bres.val.command[i].to = Seconds(kwargs.tracks[i].END)
        /\ Cardinality(sources) = Len(kwargs.tracks) =>
               \A i \in 1..Len(kwargs.tracks) : ~Has(bres.val.command[i], "to")

-----------------------------------------------------------------------------
(* cue_parser.py: Context, CueData and CueParser.run.                      *)

\* Python's None, as a value of a metadata key
PyNone == "<None>"

\* str.partition(' '): the text before the first space, the space, the text after
Partition(s) ==
    LET i == FirstIndex(s, " ")
    IN IF i = 0 THEN <<s, "", "">>
       ELSE <<SubSeq(s, 1, i - 1), " ", SubSeq(s, i + 1, Len(s))>>

\* str.rsplit(' ', 1)
RSplit1(s) ==
    LET i == LastIndex(s, " ")
    IN IF i = 0 THEN <<s>> ELSE <<SubSeq(s, 1, i - 1), SubSeq(s, i + 1, Len(s))>>

\* CueParser._unquote
_unquote(val) == StripChars(val, {" ", "\""})

\* CueParser._parse_command: <<command, args>>
_parse_command(cmd) == <<Partition(cmd)[1], _unquote(Partition(cmd)[3])>>

MetaContext_default == [ALBUM |-> "Unknown", PERFORMER |-> "Unknown", DATE |-> PyNone]

TrackContext_default == [TITLE |-> "Unknown"]

\* Context.__init__ without the class defaults
Context_init_DataOnly(default, data) == data

\* Context.__init__: the class defaults overlaid with a copy of data
Context_init(default, data) ==
    [k \in (DOMAIN default) \cup (DOMAIN data) |->
        IF k \in DOMAIN data THEN data[k] ELSE default[k]]

\* Context.add on the data of a file or a track
Context_add(data, key, val) == Put(data, key, val)

\* MetaContext.add without the renaming of TITLE
MetaContext_add_NoRemap(data, key, val) == Context_add(data, key, val)

\* MetaContext.add
MetaContext_add(data, key, val) ==
    Context_add(data, IF key = "TITLE" THEN "ALBUM" ELSE key, val)

\* a reference to a context: the meta context, the idx-th file or the idx-th track
Ctx(kind, idx) == [kind |-> kind, idx |-> idx]

\* CueData.__init__
CueData_init ==
    [meta |-> Context_init(MetaContext_default, EmptyDict),
     files |-> <<>>,
     tracks |-> <<>>,
     current_file |-> 0,
     current_track |-> 0,
     current_context |-> Ctx("meta", 0)]

\* self._current_context.data
current_data(c) ==
    IF c.current_context.kind = "meta" THEN c.meta
    ELSE IF c.current_context.kind = "file" THEN c.files[c.current_context.idx].data
    ELSE c.tracks[c.current_context.idx].data

\* CueData.add_context writing to the Disc context whatever the current one is
add_context_ToMeta(c, key, val) == [c EXCEPT !.meta = MetaContext_add(@, key, val)]

\* CueData.add_context
add_context(c, key, val) ==
    IF c.current_context.kind = "meta"
    THEN [c EXCEPT !.meta = MetaContext_add(@, key, val)]
    ELSE IF c.current_context.kind = "file"
    THEN [c EXCEPT !.files[c.current_context.idx].data = Context_add(@, key, val)]
    ELSE [c EXCEPT !.tracks[c.current_context.idx].data = Context_add(@, key, val)]

\* CueData.add_file
add_file(c, path, ftype) ==
    LET i == Len(c.files) + 1
        file_context == [path |-> path, type |-> ftype, tracks |-> <<>>,
                         data |-> Context_init(EmptyDict, current_data(c))]
    IN [c EXCEPT !.current_context = Ctx("file", i),
                 !.current_file = i,
                 !.files = Append(@, file_context)]

\* the CueData a call leaves, and the exception it raised ("" if none)
Left(e, c) == [exc |-> e, cue |-> c]

\* CueData.add_track putting the new track first in the sheet-wide list
add_track_First(c, num, dtype) ==
    IF c.current_file = 0 THEN Left("AttributeError", c)
    ELSE LET j == Len(c.tracks) + 1
             track_context ==
                 [file |-> c.current_file, num |-> num, type |-> dtype, start |-> 0,
                  data |-> Context_add(
                      Context_init(TrackContext_default, c.files[c.current_file].data),
                      "TRACK_NUM", Str(num))]
         IN Left("", [c EXCEPT !.files[c.current_file].tracks = Append(@, j),
                               !.current_context = Ctx("track", j),
                               !.current_track = j,
                               !.tracks = <<track_context>> \o @])

\* CueData.add_track; a file's tracks are positions in the sheet-wide list
add_track(c, num, dtype) ==
    IF c.current_file = 0 THEN Left("AttributeError", c)
    ELSE LET j == Len(c.tracks) + 1
             track_context ==
                 [file |-> c.current_file, num |-> num, type |-> dtype, start |-> 0,
                  data |-> Context_add(
                      Context_init(TrackContext_default, c.files[c.current_file].data),
                      "TRACK_NUM", Str(num))]
         IN Left("", [c EXCEPT !.files[c.current_file].tracks = Append(@, j),
                               !.current_context = Ctx("track", j),
                               !.current_track = j,
                               !.tracks = Append(@, track_context)])

\* CueData.add_track_index
add_track_index(c, pos) ==
    LET r == pos_to_frames(pos)
    IN IF ~r.ok THEN Left(r.exc, c)
       ELSE IF c.current_track = 0 THEN Left("AttributeError", c)
       ELSE Left("", [c EXCEPT !.tracks[c.current_track].start = r.val])

\* what the loop of CueParser.run reads off a line before it touches the CueData
CueLineReading(ln) ==
    LET cmd == _parse_command(ln)[1]
        args == _parse_command(ln)[2]
    IN [cmd |-> cmd,
        args |-> args,
        rem |-> _parse_command(args),
        file |-> IF Len(RSplit1(args)) < 2 THEN Raised("ValueError")
                 ELSE Returned([path |-> _unquote(RSplit1(args)[1]),
                                ftype |-> RSplit1(args)[2]]),
        track |-> IF ~IntOk(Partition(args)[1]) THEN Raised("ValueError")
                  ELSE Returned([num |-> IntVal(Partition(args)[1]),
                                 dtype |-> Partition(args)[3]]),
        index |-> [num |-> Partition(args)[1], pos |-> Partition(args)[3]]]

MaxSheetLines == 5

CueTrackLine(n) == "TRACK " \o Two(n) \o " AUDIO"

\* the lines, stripped as from_file hands them over, a sheet may go on with once
\* it holds n tracks: the next track number or number 01 again, and a tag written
\* with and without REM
CueLines(n) ==
    { "FILE \"a.wav\" WAVE", "FILE \"b.wav\" WAVE", CueTrackLine(n + 1), CueTrackLine(1),
      "INDEX 01 00:00:00", "INDEX 01 00:02:00", "INDEX 00 00:01:74",
      "TITLE \"T\"", "REM GENRE Rock", "GENRE Rock" }

\* CueLineReading, tabulated once over the lines of the model's sheets
CueLineReadings ==
    [ln \in UNION {CueLines(n) : n \in 0..(MaxSheetLines + 1)} |-> CueLineReading(ln)]

\* one pass of the loop of CueParser.run over a line of the sheet
run_line(c, ln) ==
    LET rd == CueLineReadings[ln]
    IN IF rd.cmd = "REM" THEN Left("", add_context(c, rd.rem[1], rd.rem[2]))
       ELSE IF rd.cmd = "FILE" THEN
           IF ~rd.file.ok THEN Left(rd.file.exc, c)
           ELSE Left("", add_file(c, rd.file.val.path, rd.file.val.ftype))
       ELSE IF rd.cmd = "TRACK" THEN
           IF ~rd.track.ok THEN Left(rd.track.exc, c)
           ELSE add_track(c, rd.track.val.num, rd.track.val.dtype)
       ELSE IF rd.cmd = "INDEX" THEN
           IF rd.index.num = "01"
           THEN add_track_index(add_context(c, rd.cmd \o " " \o rd.index.num, rd.index.pos),
                                rd.index.pos)
           ELSE Left("", c)
       ELSE Left("", add_context(c, rd.cmd, rd.args))

ParseInit ==
    /\ FramesIdle
    /\ SplitIdle
    /\ RecipesIdle
    /\ SanitizeIdle
    /\ ServiceIdle
    /\ cue = CueData_init
    /\ pline = ""
    /\ nread = 0
    /\ ppc = "running"
    /\ pres = NotRun

\* CueParser.run takes the next line of the sheet
ParseLine ==
    /\ ppc = "running"
    /\ nread < MaxSheetLines
    /\ \E ln \in CueLines(Len(cue.tracks)) :
        LET r == run_line(cue, ln)
        IN /\ pline' = ln
           /\ cue' = r.cue
           /\ ppc' = IF r.exc = "" THEN "running" ELSE "done"
           /\ pres' = IF r.exc = "" THEN pres ELSE Raised(r.exc)
    /\ nread' = nread + 1
    /\ UNCHANGED <<xvars, fvars, svars, rvars, uvars>>

\* the lines are exhausted: CueParser.run returns the CueData
ParseEnd ==
    /\ ppc = "running"
    /\ ppc' = "done"
    /\ pres' = Returned("cue")
    /\ UNCHANGED <<xvars, fvars, svars, rvars, uvars, cue, pline, nread>>

ParseNext == ParseLine \/ ParseEnd

SpecParse == ParseInit /\ [][ParseNext]_vars

-----------------------------------------------------------------------------
(* Claims about the sheet parser, checked under SpecParse.                 *)

\* C8: parsing a sheet that has produced no track by the end of the input fails
\* with ParserError: CueParser.run never returns a parse result without tracks.
C8_NoTracksFails ==
    (ppc = "done" /\ pres.ok) => Len(cue.tracks) > 0

\* C9: a TRACK or INDEX command read before any FILE command makes parsing fail
\* with ParserError.
C9_TrackBeforeFileFails ==
    (nread > 0 /\ CueLineReadings[pline].cmd \in {"TRACK", "INDEX"} /\ Len(cue.files) = 0)
        => pres = Raised("ParserError")

\* the command of the line CueParser.run read last
LastCmd == IF nread = 0 THEN "" ELSE CueLineReadings[pline].cmd

\* C11: after every FILE command the new file's metadata equals the Disc
\* context's metadata (nothing of an earlier file or track is in it), and the new
\* file is the current context.
C11_FileSeededFromDisc ==
    LastCmd = "FILE" =>
        /\ cue.files[Len(cue.files)].data = cue.meta
        /\ cue.current_context = Ctx("file", Len(cue.files))

\* C12: a TITLE command read in the Disc context sets ALBUM and never a TITLE key
\* of the Disc; read in a file or track context it sets that context's TITLE;
\* every track carries the Disc's ALBUM.
C12_TitleBecomesAlbum ==
    /\ ~Has(cue.meta, "TITLE")
    /\ LastCmd = "TITLE" =>
           IF cue.current_context.kind = "meta"
           THEN cue.meta.ALBUM = CueLineReadings[pline].args
           ELSE current_data(cue).TITLE = CueLineReadings[pline].args
    /\ \A i \in 1..Len(cue.tracks) : cue.tracks[i].data.ALBUM = cue.meta.ALBUM

\* a Disc-level TITLE "T" reached a track as ALBUM, and a TITLE read in that
\* track's context became the track's TITLE
C12_Witness ==
    /\ LastCmd = "TITLE"
    /\ cue.current_context.kind = "track"
    /\ cue.meta.ALBUM = "T"
    /\ cue.tracks[cue.current_track].data.ALBUM = "T"
    /\ cue.tracks[cue.current_track].data.TITLE = "T"

\* the track numbers and starts of the tracks of file f, in the file's order
FileTracks(c, f) == [k \in 1..Len(c.files[f].tracks) |-> c.tracks[c.files[f].tracks[k]]]

\* C23: in every parse tree CueParser.run returns, the track numbers are unique
\* within each file, and within each file no track starts before the one
\* before it.
C23_UniqueAndMonotone ==
    (ppc = "done" /\ pres.ok) =>
        \A f \in 1..Len(cue.files) :
            \A a, b \in 1..Len(FileTracks(cue, f)) :
                /\ a < b => FileTracks(cue, f)[a].num # FileTracks(cue, f)[b].num
                /\ b = a + 1 => FileTracks(cue, f)[b].start >= FileTracks(cue, f)[a].start

\* the loop of CueParser.run has gone through one more line without raising
ReadOn == nread' = nread + 1 /\ ppc' = "running"

RECURSIVE ConcatTracks(_, _)
\* the track lists of the files f, f + 1, ... of c, one after the other
ConcatTracks(c, f) ==
    IF f > Len(c.files) THEN <<>> ELSE c.files[f].tracks \o ConcatTracks(c, f + 1)

\* C24: the tracks of the parse tree are in the order of their TRACK commands:
\* a TRACK command adds its track after all earlier ones, no command moves or
\* removes a track, and the sheet-wide list is the files' own lists, in FILE
\* order, one after the other.
C24_SheetOrder ==
    [][ReadOn =>
        /\ \A i \in 1..Len(cue.tracks) : cue'.tracks[i].num = cue.tracks[i].num
        /\ IF CueLineReadings[pline'].cmd = "TRACK"
           THEN /\ Len(cue'.tracks) = Len(cue.tracks) + 1
                /\ cue'.tracks[Len(cue'.tracks)].num = CueLineReadings[pline'].track.val.num
           ELSE Len(cue'.tracks) = Len(cue.tracks)
        /\ ConcatTracks(cue', 1) = [i \in 1..Len(cue'.tracks) |-> i]]_vars

\* tracks numbered 1, 2, 1, over two files, are kept in that order
C24_Witness ==
    /\ Len(cue.files) = 2
    /\ Len(cue.tracks) = 3
    /\ cue.tracks[1].num = 1
    /\ cue.tracks[2].num = 2
    /\ cue.tracks[3].num = 1
    /\ cue.tracks[3].file = 2

\* no context but the current one has its data changed by the step
OthersKeep ==
    /\ cue.current_context.kind # "meta" => cue'.meta = cue.meta
    /\ \A f \in 1..Len(cue.files) :
           cue.current_context # Ctx("file", f) => cue'.files[f].data = cue.files[f].data
    /\ \A t \in 1..Len(cue.tracks) :
           cue.current_context # Ctx("track", t) => cue'.tracks[t].data = cue.tracks[t].data

Added(ln) ==
    IF CueLineReadings[ln].cmd = "REM" THEN CueLineReadings[ln].rem
    ELSE <<CueLineReadings[ln].cmd, CueLineReadings[ln].args>>

\* C26: the current context is the Disc before the first FILE and afterwards
\* the entity the most recent FILE or TRACK command created; a REM sub-command
\* or another command that is no FILE, TRACK or INDEX sets its key in exactly
\* that context (the Disc keeping a TITLE as ALBUM), and 'REM K V' does what
\* the bare 'K V' does.
C26_CurrentContext ==
    /\ nread = 0 => cue.current_context = Ctx("meta", 0)
    /\ [][ReadOn =>
            /\ cue'.current_context =
                   IF CueLineReadings[pline'].cmd = "FILE" THEN Ctx("file", Len(cue'.files))
                   ELSE IF CueLineReadings[pline'].cmd = "TRACK"
                   THEN Ctx("track", Len(cue'.tracks))
                   ELSE cue.current_context
            /\ CueLineReadings[pline'].cmd \notin {"FILE", "TRACK", "INDEX"} =>
                   /\ OthersKeep
                   /\ current_data(cue') =
                          Put(current_data(cue),
                              IF cue.current_context.kind = "meta" /\ Added(pline')[1] = "TITLE"
                              THEN "ALBUM" ELSE Added(pline')[1],
                              Added(pline')[2])
                   /\ Len(cue'.files) = Len(cue.files)
                   /\ Len(cue'.tracks) = Len(cue.tracks)
            /\ CueLineReadings[pline'].cmd = "REM" =>
                   cue' = run_line(cue, CueLineReadings[pline'].args).cue]_vars

\* a REM GENRE read in a track's context has set the track's GENRE and left
\* the Disc and the file without one
C26_Witness ==
    /\ pline = "REM GENRE Rock"
    /\ cue.current_context.kind = "track"
    /\ cue.tracks[cue.current_track].data.GENRE = "Rock"
    /\ ~Has(cue.meta, "GENRE")
    /\ ~Has(cue.files[cue.current_file].data, "GENRE")

\* C27: whenever a current track is set it is one of the tracks of the current
\* file, so an INDEX 01 never sets the start of a track of an earlier file.
C27_CurrentTrackInCurrentFile ==
    (nread > 0 /\ cue.current_track # 0) =>
        \E k \in 1..Len(cue.files[cue.current_file].tracks) :
            cue.files[cue.current_file].tracks[k] = cue.current_track

-----------------------------------------------------------------------------
(* utils.py: sanitize.                                                     *)

RECURSIVE Remove(_, _)
\* s with every character of cs removed: str.replace(c, '') and re.sub('[cs]', '', s)
Remove(s, cs) ==
    IF Len(s) = 0 THEN ""
    ELSE (IF Char(s, 1) \in cs THEN "" ELSE Char(s, 1)) \o Remove(SubSeq(s, 2, Len(s)), cs)

\* the characters sanitize removes on Windows
WindowsIllegal == {"\"", "*", ":", "<", ">", "?", "/", "|", "\\"}

\* sanitize(string) on the platform platform.system() names
sanitize(s, plat) ==
    LET newstr == StripChars(Strip(s), {"."})
    IN IF plat = "Windows" THEN Remove(newstr, WindowsIllegal)
       ELSE Remove(newstr, {"/"})

MaxStringLen == 3

Alphabet == {" ", ".", "/", "a"}

RECURSIVE StringsOfLen(_)
\* the strings of n characters of the alphabet
StringsOfLen(n) ==
    IF n = 0 THEN {""} ELSE {t \o c : t \in StringsOfLen(n - 1), c \in Alphabet}

Platforms == {"Linux", "Windows"}

SanitizeInit ==
    /\ FramesIdle
    /\ SplitIdle
    /\ ParseIdle
    /\ RecipesIdle
    /\ ServiceIdle
    /\ string \in UNION {StringsOfLen(n) : n \in 0..MaxStringLen}
    /\ system \in Platforms
    /\ once = NotRun
    /\ twice = NotRun

\* sanitize is called on the string
SanitizeOnce ==
    /\ once = NotRun
    /\ once' = Returned(sanitize(string, system))
    /\ UNCHANGED <<xvars, fvars, svars, pvars, rvars, string, system, twice>>

\* sanitize is called on what it returned
SanitizeTwice ==
    /\ once # NotRun
    /\ twice = NotRun
    /\ twice' = Returned(sanitize(once.val, system))
    /\ UNCHANGED <<xvars, fvars, svars, pvars, rvars, string, system, once>>

SanitizeNext == SanitizeOnce \/ SanitizeTwice

SpecSanitize == SanitizeInit /\ [][SanitizeNext]_vars

\* C20: sanitize is idempotent: sanitize(sanitize(s)) = sanitize(s).
C20_Idempotent == twice # NotRun => twice = once

-----------------------------------------------------------------------------
(* ffmpeg.py: FFMpeg.codec_setup and FFMpeg.commandargs.                   *)

DATACODECS ==
    [wav |-> "pcm_s16le -ar 44100", flac |-> "flac -ar 44100",
     ogg |-> "libvorbis -ar 44100", opus |-> "libopus", mp3 |-> "libmp3lame -ar 44100"]

\* os.path.splitext(sourcef)[1].replace('.', '') for a file name with a suffix
SuffixOf(sourcef) ==
    IF LastIndex(sourcef, ".") = 0 THEN ""
    ELSE SubSeq(sourcef, LastIndex(sourcef, ".") + 1, Len(sourcef))

\* FFMpeg.codec_setup: <<codec, outsuffix>>, or the exception raised
codec_setup(fmt, sourcef) ==
    IF fmt = "copy" THEN Returned(<<"-c copy", SuffixOf(sourcef)>>)
    ELSE IF fmt \notin DOMAIN DATACODECS THEN Raised("KeyError")
    ELSE Returned(<<"-c:a " \o DATACODECS[fmt], fmt>>)

RECURSIVE RJust(_, _, _)
\* str.rjust(width, fill)
RJust(t, width, fill) == IF Len(t) >= width THEN t ELSE RJust(fill \o t, width, fill)

\* the keys the loop of commandargs reads with track[...]
RequiredKeys == {"FILE", "TRACK_NUM", "START", "TITLE", "DURATION"}

\* one pass of the loop of commandargs: the recipe for the track (the command
\* kept as the parts the code writes into it, the key "to" there only if the
\* code writes -to), or the exception raised; TRACK_NUM is the text CueData.add_track
\* stores, which str() leaves as it is
recipe(track, fmt, total) ==
    LET codec == codec_setup(fmt, track.FILE)
        metadata == [ARTIST |-> Get(track, "PERFORMER", ""),
                     ALBUM |-> Get(track, "ALBUM", ""),
                     TITLE |-> Get(track, "TITLE", ""),
                     TRACK |-> track.TRACK_NUM \o "/" \o Str(total),
                     DISCNUMBER |-> Get(track, "DISCNUMBER", ""),
                     GENRE |-> Get(track, "GENRE", ""),
                     DATE |-> Get(track, "DATE", ""),
                     COMMENT |-> Get(track, "COMMENT", ""),
                     DISCID |-> Get(track, "DISCID", "")]
    IN IF ~codec.ok THEN codec
       ELSE IF ~(RequiredKeys \subseteq DOMAIN track) THEN Raised("KeyError")
       ELSE LET cmd == [i |-> track.FILE,
                        ss |-> Seconds(track.START),
                        metadata |-> metadata,
                        codec |-> codec.val[1]]
            IN Returned(
                [cmd |-> IF Has(track, "END") THEN Put(cmd, "to", Seconds(track.END))
                         ELSE cmd,
                 duration |-> track.DURATION,
                 titletrack |-> RJust(track.TRACK_NUM, 2, "0") \o " - "
                                    \o track.TITLE \o "." \o codec.val[2]])

\* FFMpeg.commandargs: the recipes, or the exception the first failing track raises
commandargs(t, fmt) ==
    IF \E i \in 1..Len(t) : ~recipe(t[i], fmt, Len(t)).ok
    THEN recipe(t[CHOOSE i \in 1..Len(t) :
                      /\ ~recipe(t[i], fmt, Len(t)).ok
                      /\ \A j \in 1..(i - 1) : recipe(t[j], fmt, Len(t)).ok],
                fmt, Len(t))
    ELSE Returned([i \in 1..Len(t) |-> recipe(t[i], fmt, Len(t)).val])

MaxAudioTracks == 2

\* the titles and dates of the tracks handed to commandargs; a sheet that gives
\* no date leaves the None of MetaContext._default
Titles == {"T", "a/b"}

Dates == {PyNone, "1999"}

\* the i-th of n consecutive two-second tracks of one source, with the metadata
\* CueParser gives a track of a sheet that sets its title and date
AudioTrack(i, n, title, date) ==
    LET data == Context_add(Context_add(Context_add(
                    Context_init(TrackContext_default,
                                 Context_init(MetaContext_default, EmptyDict)),
                    "TRACK_NUM", Str(i)), "TITLE", title), "DATE", date)
        resolved == Put(Put(Put(data, "FILE", "a.wav"), "START", (i - 1) * 2 * rate),
                        "DURATION", 2 * FramesPerSecond)
    IN IF i < n THEN Put(resolved, "END", i * 2 * rate) ELSE resolved

\* the track lists of n tracks
AudioTrackLists(n) ==
    {[i \in 1..n |-> AudioTrack(i, n, td[i][1], td[i][2])] :
        td \in [1..n -> Titles \X Dates]}

RecipesInit ==
    /\ FramesIdle
    /\ SplitIdle
    /\ ParseIdle
    /\ SanitizeIdle
    /\ ServiceIdle
    /\ audiotracks \in UNION {AudioTrackLists(n) : n \in 0..MaxAudioTracks}
    /\ outformat \in OutputFormats
    /\ rres = NotRun

\* commandargs is called
Commandargs ==
    /\ rres = NotRun
    /\ rres' = commandargs(audiotracks, outformat)
    /\ UNCHANGED <<xvars, fvars, svars, pvars, uvars, audiotracks, outformat>>

RecipesNext == Commandargs

SpecRecipes == RecipesInit /\ [][RecipesNext]_vars

\* C18: the output name of every recipe is '<NN> - <T>.<ext>': NN the track
\* number padded with zeros to two digits, T the sanitized title, ext the
\* extension of the output format (of the source, in pass-through mode).
C18_OutputName ==
    rres.ok =>
        \A i \in 1..Len(rres.val) :
            rres.val[i].titletrack =
                (IF Len(audiotracks[i].TRACK_NUM) < 2 THEN "0" ELSE "")
                    \o audiotracks[i].TRACK_NUM \o " - "
                    \o sanitize(audiotracks[i].TITLE, "Linux") \o "."
                    \o (IF outformat = "copy" THEN "wav" ELSE outformat)

\* C19: with an output format that is neither in the codec table nor the
\* pass-through mode, recipe building fails with ConfigurationError, whatever
\* the number of tracks.
C19_UnknownCodecFails ==
    (rres # NotRun /\ outformat \notin (DOMAIN DATACODECS) \cup {"copy"})
        => rres = Raised("ConfigurationError")

-----------------------------------------------------------------------------
(* Opening the sheet: FFCueSplitter.__init__ and open_cuefile of            *)
(* cuesplitter.py, and CueParser.from_file of cue_parser.py. The bytes of   *)
(* the sheet are known by the set of encodings under which they decode.     *)

\* the encodings a sheet may be written in, supplied with or detected as
Encodings == {"utf-8", "cp1252", "ascii"}

\* the encoding open() takes when it is given encoding=None
DefaultEncoding == "utf-8"

\* the suffixes of the paths handed to the constructor
Suffixes == {".cue", ".CUE", ".txt", ""}

\* whether the bytes data decode under coding, None standing for the default
Decodes(data, coding) ==
    (IF coding = PyNone THEN DefaultEncoding ELSE coding) \in data

\* the record of a step that is no attempt to decode: "chdir", "read", "parse"
Did(op) == [op |-> op, coding |-> ""]

\* the record of one attempt to decode the bytes
Attempt(coding) == [op |-> "decode", coding |-> coding]

\* FFCueSplitter.__init__ changing the directory before it looks at the file
FFCueSplitter_init_ChdirFirst(fn, log) ==
    IF ~fn.isfile \/ fn.suffix \notin {".cue", ".CUE"}
    THEN [res |-> Raised("InvalidFileError"), log |-> Append(log, Did("chdir"))]
    ELSE [res |-> Returned("bdata"), log |-> log \o <<Did("chdir"), Did("read")>>]

\* FFCueSplitter.__init__, from the test of the file on: the outcome and what
\* it has done, added to log
FFCueSplitter_init(fn, log) ==
    IF ~fn.isfile \/ fn.suffix \notin {".cue", ".CUE"}
    THEN [res |-> Raised("InvalidFileError"), log |-> log]
    ELSE [res |-> Returned("bdata"), log |-> log \o <<Did("chdir"), Did("read")>>]

\* open_cuefile: self.bdata.decode(self.encoding['encoding']), then the parser
open_cuefile(data, coding, log) ==
    IF coding = PyNone THEN [res |-> Raised("TypeError"), log |-> log]
    ELSE IF ~Decodes(data, coding)
    THEN [res |-> Raised("UnicodeDecodeError"), log |-> Append(log, Attempt(coding))]
    ELSE [res |-> Returned("tracks"), log |-> log \o <<Attempt(coding), Did("parse")>>]

\* read of from_file: a CueParser, or None on UnicodeDecodeError
read(data, coding) == IF Decodes(data, coding) THEN "CueParser" ELSE PyNone

OpenInit ==
    /\ FramesIdle
    /\ SplitIdle
    /\ ParseIdle
    /\ RecipesIdle
    /\ SanitizeIdle
    /\ OverwriteIdle
    /\ WorkIdle
    /\ MainIdle
    /\ filename \in [isfile : BOOLEAN, suffix : Suffixes]
    /\ bdata \in SUBSET Encodings
    /\ encoding \in Encodings \cup {PyNone}
    /\ reader \in {"from_file", "open_cuefile"}
    /\ parser = ""
    /\ olog = <<>>
    /\ opc = "start"
    /\ ores = NotRun

\* FFCueSplitter(filename=...)
Construct ==
    /\ opc = "start"
    /\ reader = "open_cuefile"
    /\ olog' = FFCueSplitter_init(filename, olog).log
    /\ ores' = FFCueSplitter_init(filename, olog).res
    /\ opc' = IF FFCueSplitter_init(filename, olog).res.ok THEN "constructed" ELSE "done"
    /\ UNCHANGED <<fvars, svars, pvars, rvars, uvars, cvars, wvars, mvars,
                   filename, bdata, encoding, reader, parser>>

\* FFCueSplitter.open_cuefile
OpenCuefile ==
    /\ opc = "constructed"
    /\ olog' = open_cuefile(bdata, encoding, olog).log
    /\ ores' = open_cuefile(bdata, encoding, olog).res
    /\ opc' = "done"
    /\ UNCHANGED <<fvars, svars, pvars, rvars, uvars, cvars, wvars, mvars,
                   filename, bdata, encoding, reader, parser>>

\* from_file: parser = read(encoding); open() raises if there is no such file
FirstRead ==
    /\ opc = "start"
    /\ reader = "from_file"
    /\ IF ~filename.isfile
       THEN /\ ores' = Raised("FileNotFoundError")
            /\ opc' = "done"
            /\ UNCHANGED <<olog, parser>>
       ELSE /\ olog' = Append(olog, Attempt(encoding))
            /\ parser' = read(bdata, encoding)
            /\ opc' = "first read"
            /\ UNCHANGED ores
    /\ UNCHANGED <<fvars, svars, pvars, rvars, uvars, cvars, wvars, mvars,
                   filename, bdata, encoding, reader>>

\* from_file: if not parser: parser = read()
Fallback ==
    /\ opc = "first read"
    /\ IF parser = PyNone
       THEN /\ olog' = Append(olog, Attempt(PyNone))
            /\ parser' = read(bdata, PyNone)
       ELSE UNCHANGED <<olog, parser>>
    /\ opc' = "read"
    /\ UNCHANGED <<fvars, svars, pvars, rvars, uvars, cvars, wvars, mvars,
                   filename, bdata, encoding, reader, ores>>

\* from_file: if not parser: raise ParserError; return parser
FromFileEnd ==
    /\ opc = "read"
    /\ ores' = IF parser = PyNone THEN Raised("ParserError") ELSE Returned(parser)
    /\ opc' = "done"
    /\ UNCHANGED <<fvars, svars, pvars, rvars, uvars, cvars, wvars, mvars,
                   filename, bdata, encoding, reader, parser, olog>>

OpenNext == Construct \/ OpenCuefile \/ FirstRead \/ Fallback \/ FromFileEnd

SpecOpen == OpenInit /\ [][OpenNext]_vars

\* the attempts to decode the sheet made so far, in order
Attempts == SelectSeq(olog, LAMBDA e : e.op = "decode")

\* C21: the first attempt to decode the sheet is with the supplied or detected
\* encoding; once reading is over, a second attempt has been made exactly if
\* the first failed, it was with the default encoding and there is no third;
\* ParserError is raised only after two failed attempts.
C21_FallbackOnce ==
    /\ Len(Attempts) >= 1 => Attempts[1] = Attempt(encoding)
    /\ Len(Attempts) <= 2
    /\ Len(Attempts) = 2 =>
           /\ Attempts[2] = Attempt(PyNone)
           /\ ~Decodes(bdata, encoding)
    /\ (opc = "done" /\ Len(Attempts) = 1) => Decodes(bdata, encoding)
    /\ (opc = "done" /\ ~ores.ok /\ ores.exc = "ParserError") =>
           /\ Len(Attempts) = 2
           /\ ~Decodes(bdata, encoding)
           /\ ~Decodes(bdata, PyNone)

\* C22: FFCueSplitter constructed on a path that is no regular file, or whose
\* suffix is neither '.cue' nor '.CUE', raises InvalidFileError with the
\* directory unchanged and nothing read, decoded or parsed.
C22_InvalidFileFirst ==
    (reader = "open_cuefile" /\ opc # "start"
        /\ (~filename.isfile \/ filename.suffix \notin {".cue", ".CUE"})) =>
        /\ opc = "done"
        /\ ores = Raised("InvalidFileError")
        /\ olog = <<>>

\* an existing file with suffix .txt has been refused
C22_Witness ==
    /\ reader = "open_cuefile"
    /\ opc = "done"
    /\ filename.isfile
    /\ filename.suffix = ".txt"
    /\ ores = Raised("InvalidFileError")
    /\ olog = <<>>

-----------------------------------------------------------------------------
(* user_service.py: FileSystemOperations.check_for_overwriting. A track is   *)
(* known by its TRACK_NUM, which names its output file.                      *)

\* what the user may type at the prompt; "x" stands for any other text
Answers == {"Y", "y", "n", "N", "always", "never", "x"}

\* the answers the prompt accepts
ValidAnswers == {"Y", "y", "n", "N", "always", "never"}

\* del lst[lst.index(x)]
RemoveFirst(lst, x) ==
    LET i == CHOOSE j \in 1..Len(lst) : lst[j] = x /\ \A k \in 1..(j - 1) : lst[k] # x
    IN SubSeq(lst, 1, i - 1) \o SubSeq(lst, i + 1, Len(lst))

\* the body of the loop after the prompt, with overwr = ow: the track list
\* left, and the value returned if the function returns here
Settle(ow, lst, data, ex) ==
    IF ex /\ ow = "never" THEN [tracks |-> lst, res |-> Returned(TRUE)]
    ELSE IF ow \in {"n", "N"} THEN [tracks |-> RemoveFirst(lst, data), res |-> NotRun]
    ELSE IF ow = "always" THEN [tracks |-> lst, res |-> Returned(FALSE)]
    ELSE [tracks |-> lst, res |-> NotRun]

OverwriteInit ==
    /\ FramesIdle
    /\ SplitIdle
    /\ ParseIdle
    /\ RecipesIdle
    /\ SanitizeIdle
    /\ OpenIdle
    /\ WorkIdle
    /\ MainIdle
    /\ overwrite \in {"ask", "never", "always"}
    /\ \E n \in 0..MaxAudioTracks :
           /\ owtracks = [i \in 1..n |-> i]
           /\ outfiles \in SUBSET (1..n)
    /\ tcopy = <<>>
    /\ cidx = 0
    /\ overwr = ""
    /\ answered = EmptyDict
    /\ cpc = "start"
    /\ cres = NotRun

\* check_for_overwriting up to the loop
CheckBegin ==
    /\ cpc = "start"
    /\ overwr' = overwrite
    /\ tcopy' = owtracks
    /\ IF overwrite = "always"
       THEN cres' = Returned(FALSE) /\ cpc' = "done" /\ cidx' = cidx
       ELSE IF overwrite = "never"
       THEN cres' = Returned(TRUE) /\ cpc' = "done" /\ cidx' = cidx
       ELSE cres' = cres /\ cpc' = "loop" /\ cidx' = 1
    /\ UNCHANGED <<fvars, svars, pvars, rvars, uvars, ovars, wvars, mvars,
                   overwrite, outfiles, owtracks, answered>>

\* the rest of the loop body for the track at cidx, with overwr = ow
SettleTrack(ow) ==
    LET st == Settle(ow, owtracks, tcopy[cidx], tcopy[cidx] \in outfiles)
    IN /\ owtracks' = st.tracks
       /\ cres' = st.res
       /\ cidx' = IF st.res = NotRun THEN cidx + 1 ELSE cidx
       /\ cpc' = IF st.res = NotRun THEN "loop" ELSE "done"

\* one pass of "for data in tracks" up to the prompt, or through the body
\* when nothing is asked; return False after the last track
CheckTrack ==
    /\ cpc = "loop"
    /\ IF cidx > Len(tcopy)
       THEN cres' = Returned(FALSE) /\ cpc' = "done" /\ UNCHANGED <<owtracks, cidx>>
       ELSE IF tcopy[cidx] \in outfiles /\ overwr \in {"n", "N", "y", "Y", "ask"}
       THEN cpc' = "input" /\ UNCHANGED <<owtracks, cidx, cres>>
       ELSE SettleTrack(overwr)
    /\ UNCHANGED <<fvars, svars, pvars, rvars, uvars, ovars, wvars, mvars,
                   overwrite, outfiles, tcopy, overwr, answered>>

\* overwr = input(...): a valid answer leaves the while loop and the body
\* goes on, any other text is asked again
Input ==
    /\ cpc = "input"
    /\ \E ans \in Answers :
           /\ answered' = Put(answered, tcopy[cidx], ans)
           /\ IF ans \in ValidAnswers
              THEN overwr' = ans /\ SettleTrack(ans)
              ELSE UNCHANGED <<overwr, owtracks, cidx, cpc, cres>>
    /\ UNCHANGED <<fvars, svars, pvars, rvars, uvars, ovars, wvars, mvars,
                   overwrite, outfiles, tcopy>>

OverwriteNext == CheckBegin \/ CheckTrack \/ Input

SpecOverwrite == OverwriteInit /\ [][OverwriteNext]_vars

\* the tracks check_for_overwriting has taken out of self.audiotracks
Removed == {tcopy[i] : i \in 1..Len(tcopy)} \ {owtracks[i] : i \in 1..Len(owtracks)}

\* C28: with overwrite = 'ask', a track is taken out of audiotracks only if its
\* own output file exists and the answer given for that file was n or N; a
\* track whose output file does not exist is never taken out.
C28_RemovedOnlyOnNo ==
    overwrite = "ask" =>
        \A t \in Removed :
            /\ t \in outfiles
            /\ Has(answered, t)
            /\ answered[t] \in {"n", "N"}

-----------------------------------------------------------------------------
(* user_service.py: FileSystemOperations.work_on_temporary_directory, with  *)
(* move_files_to_outputdir and remove_source_file. command_runner and the   *)
(* move are known by whether they return or raise.                          *)

\* the two files remove_source_file deletes
SourceFiles == {"cue", "audio"}

\* remove_source_file: both files are deleted if both are there, none otherwise
remove_source_file(files) ==
    IF files.there = SourceFiles
    THEN [there |-> {}, removed |-> SourceFiles]
    ELSE files

\* the end of work_on_temporary_directory calling remove_source_file whatever
\* del_orig_files is
after_move_AlwaysRemove(del, files, log) ==
    [files |-> remove_source_file(files), log |-> Append(log, [op |-> "remove", n |-> 0, ok |-> TRUE])]

\* if self.kwargs['del_orig_files']: self.remove_source_file()
after_move(del, files, log) ==
    IF del
    THEN [files |-> remove_source_file(files),
          log |-> Append(log, [op |-> "remove", n |-> 0, ok |-> TRUE])]
    ELSE [files |-> files, log |-> log]

WorkInit ==
    /\ FramesIdle
    /\ SplitIdle
    /\ ParseIdle
    /\ RecipesIdle
    /\ SanitizeIdle
    /\ OpenIdle
    /\ OverwriteIdle
    /\ MainIdle
    /\ wtracks \in 0..MaxAudioTracks
    /\ del_orig_files \in BOOLEAN
    /\ \E there \in SUBSET SourceFiles : srcfiles = [there |-> there, removed |-> {}]
    /\ count = 0
    /\ wlog = <<>>
    /\ wpc = "start"
    /\ wres = NotRun

\* if not self.audiotracks: raise; the temporary directory and the recipes
WorkBegin ==
    /\ wpc = "start"
    /\ IF wtracks = 0
       THEN wres' = Raised("FFCueSplitterError") /\ wpc' = "done"
       ELSE wres' = wres /\ wpc' = "commands"
    /\ UNCHANGED <<fvars, svars, pvars, rvars, uvars, ovars, cvars, mvars,
                   wtracks, del_orig_files, srcfiles, count, wlog>>

\* one pass of "for args in recipes['recipes']": command_runner returns, or
\* FFMpegError leaves the function
CommandRunner ==
    /\ wpc = "commands"
    /\ count < wtracks
    /\ count' = count + 1
    /\ \E ok \in BOOLEAN :
           /\ wlog' = Append(wlog, [op |-> "run", n |-> count + 1, ok |-> ok])
           /\ IF ok
              THEN UNCHANGED <<wres, wpc>>
              ELSE wres' = Raised("FFMpegError") /\ wpc' = "done"
    /\ UNCHANGED <<fvars, svars, pvars, rvars, uvars, ovars, cvars, mvars,
                   wtracks, del_orig_files, srcfiles>>

\* self.move_files_to_outputdir(), after the loop: it returns, or raises
\* FFCueSplitterError
MoveFiles ==
    /\ wpc = "commands"
    /\ count = wtracks
    /\ \E ok \in BOOLEAN :
           /\ wlog' = Append(wlog, [op |-> "move", n |-> 0, ok |-> ok])
           /\ IF ok
              THEN wres' = wres /\ wpc' = "moved"
              ELSE wres' = Raised("FFCueSplitterError") /\ wpc' = "done"
    /\ UNCHANGED <<fvars, svars, pvars, rvars, uvars, ovars, cvars, mvars,
                   wtracks, del_orig_files, srcfiles, count>>

\* the end of work_on_temporary_directory
WorkEnd ==
    /\ wpc = "moved"
    /\ srcfiles' = after_move(del_orig_files, srcfiles, wlog).files
    /\ wlog' = after_move(del_orig_files, srcfiles, wlog).log
    /\ wres' = Returned(PyNone)
    /\ wpc' = "done"
    /\ UNCHANGED <<fvars, svars, pvars, rvars, uvars, ovars, cvars, mvars,
                   wtracks, del_orig_files, count>>

WorkNext == WorkBegin \/ CommandRunner \/ MoveFiles \/ WorkEnd

SpecWork == WorkInit /\ [][WorkNext]_vars

\* C29: work_on_temporary_directory runs the commands one at a time in recipe
\* order; it moves the files only after every command has returned without
\* error; it removes the originals only after that move has succeeded and
\* only when del_orig_files is set; when a command or the move raises, no
\* source file is deleted; with no tracks it raises FFCueSplitterError before
\* any command.
C29_WorkOrder ==
    /\ \A i \in 1..Len(wlog) :
           /\ wlog[i].op = "run" =>
                  /\ wlog[i].n = i
                  /\ i <= wtracks
           /\ wlog[i].op = "move" =>
                  /\ i = wtracks + 1
                  /\ \A j \in 1..wtracks : wlog[j].op = "run" /\ wlog[j].ok
           /\ wlog[i].op = "remove" =>
                  /\ del_orig_files
                  /\ i = wtracks + 2
                  /\ wlog[i - 1].op = "move"
                  /\ wlog[i - 1].ok
    /\ srcfiles.removed # {} =>
           /\ wlog # <<>>
           /\ wlog[Len(wlog)].op = "remove"
    /\ (wpc = "done" /\ ~wres.ok) =>
           /\ srcfiles.removed = {}
           /\ \A i \in 1..Len(wlog) : wlog[i].op # "remove"
    /\ (wtracks = 0 /\ wpc # "start") =>
           /\ wpc = "done"
           /\ wres = Raised("FFCueSplitterError")
           /\ wlog = <<>>

\* two commands have run, the files were moved and both originals removed
C29_Witness ==
    /\ wpc = "done"
    /\ wres.ok
    /\ wtracks = 2
    /\ Len(wlog) = 4
    /\ wlog[3].op = "move"
    /\ wlog[4].op = "remove"
    /\ srcfiles.removed = SourceFiles

-----------------------------------------------------------------------------
(* main.py: the loop of main over the files found. What the try block does  *)
(* to one file is known by how it ends.                                     *)

\* the exceptions the except clause of main names
HandledErrors ==
    {"InvalidFileError", "FFCueSplitterError", "FFProbeError", "FFMpegError", "ParserError"}

\* an exception the except clause does not name
OtherErrors == {"UnicodeDecodeError"}

\* the ways the try block ends without an exception: dry_run_mode has listed
\* the recipes, check_for_overwriting returned True and the files were kept,
\* or work_on_temporary_directory has split the file
Processed == {"listed", "kept", "split"}

\* the ends of the try block for one file
Outcomes(d) ==
    HandledErrors \cup OtherErrors \cup (IF d THEN {"listed"} ELSE {"kept", "split"})

\* the largest number of files in filelist
MaxFiles == 3

\* main going on to the next file after a handled error
after_try_GoOn(out, msgs) ==
    IF out \in HandledErrors THEN [msgs |-> Append(msgs, "error"), pc |-> "loop"]
    ELSE IF out \in OtherErrors THEN [msgs |-> msgs, pc |-> "raised"]
    ELSE [msgs |-> msgs, pc |-> "loop"]

\* the end of one pass of the loop: except (...) as error: msgdebug(err=...);
\* return None; any other exception leaves main; otherwise the loop goes on
after_try(out, msgs) ==
    IF out \in HandledErrors THEN [msgs |-> Append(msgs, "error"), pc |-> "returned"]
    ELSE IF out \in OtherErrors THEN [msgs |-> msgs, pc |-> "raised"]
    ELSE [msgs |-> msgs, pc |-> "loop"]

MainInit ==
    /\ FramesIdle
    /\ SplitIdle
    /\ ParseIdle
    /\ RecipesIdle
    /\ SanitizeIdle
    /\ OpenIdle
    /\ OverwriteIdle
    /\ WorkIdle
    /\ filelist \in 0..MaxFiles
    /\ dry \in BOOLEAN
    /\ mlog = <<>>
    /\ mout = <<>>
    /\ mpc = "start"

\* if not filelist: msgdebug(err="No files found."); return None
MainBegin ==
    /\ mpc = "start"
    /\ IF filelist = 0
       THEN mout' = Append(mout, "No files found.") /\ mpc' = "returned"
       ELSE mout' = mout /\ mpc' = "loop"
    /\ UNCHANGED <<fvars, svars, pvars, rvars, uvars, ovars, cvars, wvars,
                   filelist, dry, mlog>>

\* one pass of "for files in filelist"
ProcessFile ==
    /\ mpc = "loop"
    /\ Len(mlog) < filelist
    /\ \E out \in Outcomes(dry) :
           /\ mlog' = Append(mlog, out)
           /\ mout' = after_try(out, mout).msgs
           /\ mpc' = after_try(out, mout).pc
    /\ UNCHANGED <<fvars, svars, pvars, rvars, uvars, ovars, cvars, wvars,
                   filelist, dry>>

\* msgend(done="Finished!"); return None
MainEnd ==
    /\ mpc = "loop"
    /\ Len(mlog) = filelist
    /\ mout' = Append(mout, "Finished!")
    /\ mpc' = "returned"
    /\ UNCHANGED <<fvars, svars, pvars, rvars, uvars, ovars, cvars, wvars,
                   filelist, dry, mlog>>

MainNext == MainBegin \/ ProcessFile \/ MainEnd

SpecMain == MainInit /\ [][MainNext]_vars

\* main has printed 'Finished!'
Finished == \E i \in 1..Len(mout) : mout[i] = "Finished!"

\* every file of the list has gone through the try block without an exception
AllProcessed ==
    /\ Len(mlog) = filelist
    /\ \A i \in 1..Len(mlog) : mlog[i] \in Processed

\* a handled error is the last thing main does to a file: main has returned
FirstErrorReturns ==
    \A i \in 1..Len(mlog) :
        mlog[i] \in HandledErrors =>
            /\ i = Len(mlog)
            /\ mpc = "returned"
            /\ ~Finished

\* C30 as stated: the first handled error makes main return at once, and
\* 'Finished!' is printed if and only if every file of the list was processed
\* without such an error.
C30_Original ==
    /\ FirstErrorReturns
    /\ mpc \in {"returned", "raised"} => (Finished <=> AllProcessed)
    /\ Finished => mpc = "returned"

\* C30: the first handled error makes main return at once, with no later file
\* processed, and 'Finished!' is printed if and only if the list is not empty
\* and every file of it was processed without such an error.
C30_FinishedIffAllProcessed ==
    /\ FirstErrorReturns
    /\ mpc \in {"returned", "raised"} => (Finished <=> (filelist > 0 /\ AllProcessed))
    /\ Finished => mpc = "returned"

\* the second of three files ended in FFMpegError and main returned there
C30_Witness ==
    /\ filelist = 3
    /\ mlog = <<"split", "FFMpegError">>
    /\ mpc = "returned"
    /\ ~Finished

====
